---- MODULE Spec2Model ----
(***************************************************************************)
(* Model of careerselector.py: the bracket tax function compute_taxes, the *)
(* catalog lookups, the expense total, the discretionary income and the    *)
(* waterfall table (df_steps) that main() builds on every run.             *)
(*                                                                         *)
(* Numbers.  The program computes in Python ints and floats.  The model    *)
(* computes every sum, difference, product and quotient as binary64        *)
(* arithmetic does, rounding included, so that compute_taxes(3) is         *)
(* 0.30000000000000004 here as it is there.  The integers of the model     *)
(* checker have 32 bits, so a float's 53-bit mantissa is kept as a         *)
(* sequence of 15-bit digits.                                              *)
(***************************************************************************)
EXTENDS Integers, Sequences, FiniteSets, TLC

(***************************************************************************)
(* Natural numbers of any size: the sequence of the digits in base Base,   *)
(* lowest digit first, no zero digit at the top; <<>> is 0.                *)
(***************************************************************************)
Base == 2^15

RECURSIVE Trim(_)
Trim(a) ==
    IF a = <<>> THEN a
    ELSE IF a[Len(a)] = 0 THEN Trim(SubSeq(a, 1, Len(a) - 1))
    ELSE a

RECURSIVE BigFromNat(_)
BigFromNat(n) ==
    IF n = 0 THEN <<>> ELSE <<n % Base>> \o BigFromNat(n \div Base)

RECURSIVE BigToNat(_)
BigToNat(a) ==
    IF a = <<>> THEN 0 ELSE Head(a) + Base * BigToNat(Tail(a))

RECURSIVE BigAddC(_, _, _)
BigAddC(a, b, carry) ==
    IF a = <<>> /\ b = <<>>
    THEN IF carry = 0 THEN <<>> ELSE <<carry>>
    ELSE LET x == (IF a = <<>> THEN 0 ELSE Head(a))
                  + (IF b = <<>> THEN 0 ELSE Head(b)) + carry
         IN  <<x % Base>> \o BigAddC(IF a = <<>> THEN a ELSE Tail(a),
                                     IF b = <<>> THEN b ELSE Tail(b),
                                     x \div Base)

BigAdd(a, b) == BigAddC(a, b, 0)

\* a - b - borrow for a >= b + borrow, digits not yet trimmed
RECURSIVE BigSubB(_, _, _)
BigSubB(a, b, borrow) ==
    IF a = <<>> THEN <<>>
    ELSE LET x == Head(a) - (IF b = <<>> THEN 0 ELSE Head(b)) - borrow
         IN  <<x % Base>> \o BigSubB(Tail(a),
                                     IF b = <<>> THEN b ELSE Tail(b),
                                     IF x < 0 THEN 1 ELSE 0)

BigSub(a, b) == Trim(BigSubB(a, b, 0))

\* -1, 0 or 1 as a < b, a = b or a > b
RECURSIVE BigCmp(_, _)
BigCmp(a, b) ==
    IF Len(a) # Len(b) THEN (IF Len(a) < Len(b) THEN -1 ELSE 1)
    ELSE IF a = <<>> THEN 0
    ELSE IF a[Len(a)] # b[Len(b)]
         THEN (IF a[Len(a)] < b[Len(b)] THEN -1 ELSE 1)
    ELSE BigCmp(SubSeq(a, 1, Len(a) - 1), SubSeq(b, 1, Len(b) - 1))

\* a * d + carry for one digit d
RECURSIVE BigMulSmallC(_, _, _)
BigMulSmallC(a, d, carry) ==
    IF a = <<>>
    THEN IF carry = 0 THEN <<>> ELSE <<carry>>
    ELSE LET x == Head(a) * d + carry
         IN  <<x % Base>> \o BigMulSmallC(Tail(a), d, x \div Base)

BigMulSmall(a, d) == IF d = 0 THEN <<>> ELSE BigMulSmallC(a, d, 0)

TimesBase(a) == IF a = <<>> THEN a ELSE <<0>> \o a

RECURSIVE BigMul(_, _)
BigMul(a, b) ==
    IF a = <<>> \/ b = <<>> THEN <<>>
    ELSE IF Len(a) < Len(b) THEN BigMul(b, a)
    ELSE BigAdd(BigMulSmall(a, Head(b)), TimesBase(BigMul(a, Tail(b))))

\* the quotient low.q with the digit d put below it
PushDigit(low, d) == [q |-> Append(low.q, d), r |-> low.r]

\* quotient and remainder of a by one digit d > 0, from the top digit down
RECURSIVE BigDivSmallR(_, _, _)
BigDivSmallR(a, d, rem) ==
    IF a = <<>> THEN [q |-> <<>>, r |-> rem]
    ELSE PushDigit(BigDivSmallR(SubSeq(a, 1, Len(a) - 1), d,
                                (rem * Base + a[Len(a)]) % d),
                   (rem * Base + a[Len(a)]) \div d)

TrimQuotient(res) == [q |-> Trim(res.q), r |-> res.r]

BigDivSmall(a, d) == TrimQuotient(BigDivSmallR(a, d, 0))

\* number of bits of a digit, of a number
RECURSIVE DigitBits(_)
DigitBits(d) == IF d = 0 THEN 0 ELSE 1 + DigitBits(d \div 2)

BitLen(a) ==
    IF a = <<>> THEN 0 ELSE 15 * (Len(a) - 1) + DigitBits(a[Len(a)])

RECURSIVE Zeros(_)
Zeros(n) == IF n = 0 THEN <<>> ELSE <<0>> \o Zeros(n - 1)

\* a * 2^k, and the whole part of a / 2^k
ShiftLeft(a, k) ==
    IF a = <<>> \/ k = 0 THEN a
    ELSE IF k % 15 = 0 THEN Zeros(k \div 15) \o a
    ELSE Zeros(k \div 15) \o BigMulSmall(a, 2^(k % 15))

ShiftRight(a, k) ==
    IF k \div 15 >= Len(a) THEN <<>>
    ELSE BigDivSmall(SubSeq(a, (k \div 15) + 1, Len(a)), 2^(k % 15)).q

\* the largest digit q with b * q <= x, for x < b * Base, found bit by bit
RECURSIVE QuotientDigit(_, _, _, _)
QuotientDigit(x, b, q, bit) ==
    IF bit < 0 THEN q
    ELSE IF BigCmp(BigMulSmall(b, q + 2^bit), x) <= 0
         THEN QuotientDigit(x, b, q + 2^bit, bit - 1)
    ELSE QuotientDigit(x, b, q, bit - 1)

\* long division of a by b > 0 from the top digit down; rem is the remainder
\* of the digits above, x the remainder with the next digit of a, d the
\* digit of the quotient for it
RECURSIVE BigDivLong(_, _, _)
BigDivLongDigit(a, b, x, d) ==
    PushDigit(BigDivLong(SubSeq(a, 1, Len(a) - 1), b,
                         BigSub(x, BigMulSmall(b, d))),
              d)

BigDivLongStep(a, b, x) == BigDivLongDigit(a, b, x, QuotientDigit(x, b, 0, 14))

BigDivLong(a, b, rem) ==
    IF a = <<>> THEN [q |-> <<>>, r |-> rem]
    ELSE BigDivLongStep(a, b, Trim(<<a[Len(a)]>> \o rem))

\* quotient and remainder of a by b > 0
RemainderDigits(res) == [q |-> res.q, r |-> BigFromNat(res.r)]

BigDivMod(a, b) ==
    IF Len(b) = 1 THEN RemainderDigits(BigDivSmall(a, b[1]))
    ELSE TrimQuotient(BigDivLong(a, b, <<>>))

(***************************************************************************)
(* Python numbers.  A float is IEEE 754 binary64 and every operation on it *)
(* rounds to nearest, ties to even.  A number is kept by its value:        *)
(*   <<n>>                a whole number n with |n| < SmallLimit           *)
(*   <<sign, mant, exp>>  any other number sign * mant * 2^exp, sign 1 or  *)
(*                        -1, mant odd                                     *)
(* so that a Python int and the float equal to it are the same value, as   *)
(* 2000 == 2000.0 in Python.  A float has a mant of at most MantBits bits. *)
(* The exponent range of binary64 (overflow, subnormal numbers), infinity, *)
(* NaN and the sign of zero are left out: the amounts of the program are   *)
(* far from them.                                                          *)
(***************************************************************************)
MantBits == 52 + 1

SmallLimit == 2^30

Abs(n) == IF n < 0 THEN -n ELSE n
Sign(n) == IF n < 0 THEN -1 ELSE IF n = 0 THEN 0 ELSE 1
Min(a, b) == IF a <= b THEN a ELSE b

RECURSIVE TrailingZeros(_)
TrailingZeros(d) == IF d % 2 = 1 THEN 0 ELSE 1 + TrailingZeros(d \div 2)

\* sign * mant * 2^exp, mant # 0, with the mantissa made odd: t is the
\* number of zero bits at the low end of its lowest digit
CanonShift(sign, mant, exp, t) ==
    IF t = 0 THEN <<sign, mant, exp>>
    ELSE <<sign, BigDivSmall(mant, 2^t).q, exp + t>>

RECURSIVE Canon(_, _, _)
Canon(sign, mant, exp) ==
    IF Head(mant) = 0 THEN Canon(sign, Tail(mant), exp + 15)
    ELSE CanonShift(sign, mant, exp, TrailingZeros(Head(mant)))

\* the number c = <<sign, mant, exp>> with mant odd, kept as <<n>> when it
\* is a whole number below SmallLimit
Whole(c) ==
    IF c[3] >= 0 /\ BitLen(c[2]) + c[3] <= 30
    THEN <<c[1] * BigToNat(ShiftLeft(c[2], c[3]))>>
    ELSE c

\* the number sign * mant * 2^exp
Number(sign, mant, exp) ==
    IF sign = 0 \/ mant = <<>> THEN <<0>>
    ELSE Whole(Canon(sign, mant, exp))

NumberOf(p) == Number(p[1], p[2], p[3])

\* the sign, mantissa and exponent of a number
Parts(x) ==
    IF Len(x) = 1 THEN <<Sign(x[1]), BigFromNat(Abs(x[1])), 0>> ELSE x

\* a = high * 2^(15 * j + r) + low for r < 15: high and the r bits of
\* digit j + 1 that belong to low
SplitAt(a, j, r) ==
    IF r = 0 THEN [q |-> SubSeq(a, j + 1, Len(a)), r |-> 0]
    ELSE BigDivSmall(SubSeq(a, j + 1, Len(a)), 2^r)

\* -1, 0 or 1 as low is below, at or above the half of 2^(15 * j + r): top
\* is the highest part of low, mid the half in it, and the digits 1..below
\* of a are the rest of low
HalfCmp(a, top, mid, below) ==
    IF top > mid THEN 1
    ELSE IF top < mid THEN -1
    ELSE IF \A i \in 1..below : a[i] = 0 THEN 0
    ELSE 1

\* q, plus one when the bits dropped are more than a half, or a half with q
\* odd
RoundDecide(q, half) ==
    IF half > 0 \/ (half = 0 /\ q # <<>> /\ Head(q) % 2 = 1)
    THEN BigAddC(q, <<>>, 1)
    ELSE q

RoundSplit(a, j, r, d) ==
    RoundDecide(d.q,
                IF r > 0
                THEN HalfCmp(a, d.r, 2^(r - 1), Min(j, Len(a)))
                ELSE HalfCmp(a, IF j > Len(a) THEN 0 ELSE a[j], 2^14,
                             Min(j - 1, Len(a))))

\* a / 2^k rounded to a whole number, ties to even, for k > 0
RoundShift(a, k) ==
    RoundSplit(a, k \div 15, k % 15, SplitAt(a, k \div 15, k % 15))

\* sign * mant * 2^exp rounded to MantBits bits, ties to even; k is the
\* number of bits mant has too many
RoundBy(sign, mant, exp, k) ==
    IF k <= 0 THEN Number(sign, mant, exp)
    ELSE Number(sign, RoundShift(mant, k), exp + k)

Round(sign, mant, exp) == RoundBy(sign, mant, exp, BitLen(mant) - MantBits)

RoundOf(p) == Round(p[1], p[2], p[3])

\* sx * mx * 2^e + sy * my * 2^e, not yet rounded; c compares mx with my
SubAligned(sx, mx, sy, my, e, c) ==
    IF c = 0 THEN <<0, <<>>, 0>>
    ELSE IF c > 0 THEN <<sx, BigSub(mx, my), e>>
    ELSE <<sy, BigSub(my, mx), e>>

AddAligned(sx, mx, sy, my, e) ==
    IF sx = sy THEN <<sx, BigAdd(mx, my), e>>
    ELSE SubAligned(sx, mx, sy, my, e, BigCmp(mx, my))

\* x + y and x * y for the parts x and y of two numbers, not yet rounded
SumParts(x, y) ==
    IF x[1] = 0 THEN y
    ELSE IF y[1] = 0 THEN x
    ELSE AddAligned(x[1], ShiftLeft(x[2], x[3] - Min(x[3], y[3])),
                    y[1], ShiftLeft(y[2], y[3] - Min(x[3], y[3])),
                    Min(x[3], y[3]))

ProductParts(x, y) == <<x[1] * y[1], BigMul(x[2], y[2]), x[3] + y[3]>>

FNeg(a) == IF Len(a) = 1 THEN <<-a[1]>> ELSE <<-a[1], a[2], a[3]>>

\* the exact sum, difference and product of two numbers
ExactAdd(a, b) == NumberOf(SumParts(Parts(a), Parts(b)))

ExactSub(a, b) == ExactAdd(a, FNeg(b))

ExactMul(a, b) == NumberOf(ProductParts(Parts(a), Parts(b)))

\* a < b, a <= b
FLt(a, b) ==
    IF Len(a) = 1 /\ Len(b) = 1 THEN a[1] < b[1]
    ELSE SumParts(Parts(a), Parts(FNeg(b)))[1] < 0

FLe(a, b) ==
    IF Len(a) = 1 /\ Len(b) = 1 THEN a[1] <= b[1]
    ELSE SumParts(Parts(a), Parts(FNeg(b)))[1] <= 0

\* a + b, a - b, a * b as Python computes them
FAdd(a, b) ==
    IF Len(a) = 1 /\ Len(b) = 1 /\ Abs(a[1] + b[1]) < SmallLimit
    THEN <<a[1] + b[1]>>
    ELSE RoundOf(SumParts(Parts(a), Parts(b)))

FSub(a, b) == FAdd(a, FNeg(b))

FMul(a, b) ==
    IF Len(a) = 1 /\ Len(b) = 1
       /\ (a[1] = 0 \/ Abs(b[1]) <= (SmallLimit - 1) \div Abs(a[1]))
    THEN <<a[1] * b[1]>>
    ELSE RoundOf(ProductParts(Parts(a), Parts(b)))

\* x / y for the parts of two numbers, y # 0: the quotient d.q of
\* x * 2^k by y has 2 bits more than MantBits; it gets one more bit, set
\* when the division leaves a remainder, and is rounded
DivRounded(x, y, k, d) ==
    Round(x[1] * y[1],
          BigAddC(BigMulSmall(d.q, 2), <<>>, IF d.r = <<>> THEN 0 ELSE 1),
          x[3] - y[3] - k - 1)

DivShifted(x, y, k) ==
    DivRounded(x, y, k, BigDivMod(ShiftLeft(x[2], k), y[2]))

DivParts(x, y) ==
    IF x[1] = 0 THEN <<0>>
    ELSE DivShifted(x, y, MantBits + 3 + BitLen(y[2]) - BitLen(x[2]))

\* a / b for b # 0 as Python computes it
FDiv(a, b) ==
    IF Len(a) = 1 /\ Len(b) = 1 /\ Abs(a[1]) % Abs(b[1]) = 0
    THEN <<Sign(a[1]) * Sign(b[1]) * (Abs(a[1]) \div Abs(b[1]))>>
    ELSE DivParts(Parts(a), Parts(b))

\* the Python int n, and the decimal literal n / d (0.15 is FDec(15, 100))
FInt(n) ==
    IF Abs(n) < SmallLimit THEN <<n>>
    ELSE Number(Sign(n), BigFromNat(Abs(n)), 0)

FDec(n, d) == FDiv(FInt(n), FInt(d))

\* x rounded to a whole number, ties to even, as an integer
RoundToInt(x) ==
    IF Len(x) = 1 THEN x[1]
    ELSE IF x[3] >= 0 THEN x[1] * BigToNat(ShiftLeft(x[2], x[3]))
    ELSE x[1] * BigToNat(RoundShift(x[2], -x[3]))
(***************************************************************************)
(* Python dict: an ordered sequence of <<key, value>> entries.             *)
(***************************************************************************)
keys(d) == [i \in 1..Len(d) |-> d[i][1]]

HasKey(d, k) == \E i \in 1..Len(d) : d[i][1] = k

\* d.get(k, default) with the value of the first entry as the default
Lookup_with_default(d, k) ==
    IF HasKey(d, k)
    THEN [raised |-> FALSE, value |-> d[CHOOSE i \in 1..Len(d) : d[i][1] = k][2]]
    ELSE [raised |-> FALSE, value |-> d[1][2]]

\* d[k]: the value of the entry with key k, or KeyError raised
Lookup(d, k) ==
    IF HasKey(d, k)
    THEN [raised |-> FALSE, value |-> d[CHOOSE i \in 1..Len(d) : d[i][1] = k][2]]
    ELSE [raised |-> TRUE]

\* d[k] where it does not raise
Get(d, k) == Lookup(d, k).value

(***************************************************************************)
(* format(x, ",.0f"): x rounded to a whole number of dollars, ties to even *)
(***************************************************************************)
Fmt0(x) == RoundToInt(x)

\* f"{name} (${monthly_cost:,.0f}/mo, ${annual_cost:,.0f}/yr)" as the triple
\* of the three things the string is made of
monthly_cost(annual_cost) == FDiv(annual_cost, FInt(12))

LabelKey(name, annual_cost) ==
    <<name, Fmt0(monthly_cost(annual_cost)), Fmt0(annual_cost)>>

with_monthly_and_annual_labels(data_dict) ==
    [i \in 1..Len(data_dict) |->
        <<LabelKey(data_dict[i][1], data_dict[i][2]), data_dict[i][2]>>]

(***************************************************************************)
(* compute_taxes                                                           *)
(***************************************************************************)
bracket1_limit == FInt(20000)
bracket1_rate == FDec(10, 100)
bracket2_limit == FInt(40000)
bracket2_rate == FDec(15, 100)
bracket3_limit == FInt(60000)
bracket3_rate == FDec(20, 100)
bracket4_rate == FDec(25, 100)

\* one "if remaining > limit ... else ..." block: the tax and the remaining
\* income after it
Bracket(tax, remaining, limit, rate) ==
    IF FLt(limit, remaining)
    THEN [tax |-> FAdd(tax, FMul(limit, rate)),
          remaining |-> FSub(remaining, limit)]
    ELSE [tax |-> FAdd(tax, FMul(remaining, rate)), remaining |-> FInt(0)]

\* compute_taxes charging the whole income at the rate of the bracket it
\* falls in
compute_taxes_whole_income(income) ==
    IF FLe(income, FInt(0)) THEN FInt(0)
    ELSE IF FLe(income, FInt(20000)) THEN FMul(income, bracket1_rate)
    ELSE IF FLe(income, FInt(60000)) THEN FMul(income, bracket2_rate)
    ELSE IF FLe(income, FInt(120000)) THEN FMul(income, bracket3_rate)
    ELSE FMul(income, bracket4_rate)

\* the rest of compute_taxes after the first, second and third bracket,
\* b being the tax and the remaining income after that bracket
after_bracket3(b) ==
    IF FLe(b.remaining, FInt(0)) THEN b.tax
    ELSE FAdd(b.tax, FMul(b.remaining, bracket4_rate))

after_bracket2(b) ==
    IF FLe(b.remaining, FInt(0)) THEN b.tax
    ELSE after_bracket3(Bracket(b.tax, b.remaining,
                                bracket3_limit, bracket3_rate))

after_bracket1(b) ==
    IF FLe(b.remaining, FInt(0)) THEN b.tax
    ELSE after_bracket2(Bracket(b.tax, b.remaining,
                                bracket2_limit, bracket2_rate))

compute_taxes(income) ==
    IF FLe(income, FInt(0)) THEN FInt(0)
    ELSE after_bracket1(Bracket(FInt(0), income,
                                bracket1_limit, bracket1_rate))

(***************************************************************************)
(* The catalogs of main(), in the order the dicts are written              *)
(***************************************************************************)
family_status_options == <<"Single", "Family with kids">>

career_data_raw ==
    << <<"Software Engineer", FInt(90000)>>,
       <<"Teacher", FInt(45000)>>,
       <<"Data Scientist", FInt(100000)>>,
       <<"Nurse", FInt(65000)>>,
       <<"Accountant", FInt(55000)>>,
       <<"Marketing Specialist", FInt(60000)>> >>

\* label -> (annual_rent_or_mortgage, annual_home_insurance)
housing_data_raw ==
    << <<"Rent an Apartment", <<FInt(12000), FInt(150)>> >>,
       <<"Buy a Cheap House", <<FInt(18000), FInt(600)>> >>,
       <<"Buy a Nice House", <<FInt(30000), FInt(1000)>> >> >>

\* label -> (annual_payment, mpg_estimate)
vehicle_data_raw ==
    << <<"No Car (Public Transport)", <<FInt(1000), FInt(0)>> >>,
       <<"Used Economy Car", <<FInt(3000), FInt(30)>> >>,
       <<"New Economy Car", <<FInt(5000), FInt(28)>> >>,
       <<"SUV", <<FInt(7000), FInt(20)>> >>,
       <<"Luxury Car", <<FInt(10000), FInt(18)>> >> >>

\* the dict main() builds for each family status
groceries_dict_raw ==
  [family_status \in {"Single", "Family with kids"} |->
    IF family_status = "Single"
    THEN << <<"Minimal Groceries", FInt(2400)>>,
            <<"Basic Groceries", FInt(3600)>>,
            <<"Premium Groceries", FInt(6000)>> >>
    ELSE << <<"Minimal Groceries", FInt(3600)>>,
            <<"Basic Groceries", FInt(5400)>>,
            <<"Premium Groceries", FInt(9000)>> >>]

medical_data_raw ==
  [family_status \in {"Single", "Family with kids"} |->
    IF family_status = "Single"
    THEN << <<"Free", FInt(0)>>,
            <<"Basic", FInt(2000)>>,
            <<"Premium", FInt(5000)>> >>
    ELSE << <<"Free", FInt(0)>>,
            <<"Basic", FInt(3500)>>,
            <<"Premium", FInt(7000)>> >>]

phone_data_raw ==
    << <<"Basic Phone Plan", FInt(300)>>,
       <<"Standard Phone Plan", FInt(600)>>,
       <<"Unlimited Premium", FInt(1200)>> >>

utilities_data_raw ==
    << <<"Low Utilities", FInt(1800)>>,
       <<"Medium Utilities", FInt(3000)>>,
       <<"High Utilities", FInt(4800)>> >>

loan_data_raw ==
    << <<"No Loans", FInt(0)>>,
       <<"Low Repayment", FInt(3000)>>,
       <<"Medium Repayment", FInt(6000)>>,
       <<"High Repayment", FInt(12000)>> >>

entertainment_data_raw ==
    << <<"No Subscriptions", FInt(0)>>,
       <<"Basic Streaming & Activities", FInt(600)>>,
       <<"Moderate Entertainment", FInt(1500)>>,
       <<"High Entertainment", FInt(3000)>> >>

\* label -> fraction of the salary: 0.00, 0.05, 0.10, 0.15, 0.20
retirement_data ==
    << <<"None (0%)", FDec(0, 100)>>,
       <<"5% of Salary", FDec(5, 100)>>,
       <<"10% of Salary", FDec(10, 100)>>,
       <<"15% of Salary", FDec(15, 100)>>,
       <<"20% of Salary", FDec(20, 100)>> >>

childcare_data_raw ==
    << <<"No Childcare", FInt(0)>>,
       <<"Minimal Daycare", FInt(3000)>>,
       <<"Premium Daycare", FInt(6000)>> >>

(***************************************************************************)
(* Section 4 of main(): the labelled dicts the select boxes offer          *)
(***************************************************************************)
\* new_key -> label, for the two dicts whose values are pairs
labeled(data_raw) ==
    [i \in 1..Len(data_raw) |->
        <<LabelKey(data_raw[i][1], data_raw[i][2][1]), data_raw[i][1]>>]

housing_labeled == labeled(housing_data_raw)
vehicle_labeled == labeled(vehicle_data_raw)
career_data == with_monthly_and_annual_labels(career_data_raw)
groceries_data ==
    [family_status \in DOMAIN groceries_dict_raw |->
        with_monthly_and_annual_labels(groceries_dict_raw[family_status])]
medical_data ==
    [family_status \in DOMAIN medical_data_raw |->
        with_monthly_and_annual_labels(medical_data_raw[family_status])]
phone_data == with_monthly_and_annual_labels(phone_data_raw)
utilities_data == with_monthly_and_annual_labels(utilities_data_raw)
loan_data == with_monthly_and_annual_labels(loan_data_raw)
entertainment_data == with_monthly_and_annual_labels(entertainment_data_raw)

childcare_data ==
  [family_status \in {"Single", "Family with kids"} |->
    IF family_status = "Family with kids"
    THEN with_monthly_and_annual_labels(childcare_data_raw)
    ELSE << << <<"No Childcare (N/A)">>, FInt(0)>> >>]

(***************************************************************************)
(* Section 5 of main(): the costs derived from the selections              *)
(***************************************************************************)
NoCar == "No Car (Public Transport)"

\* the values of annual_miles and gas_price main() goes on with
annual_miles_of(vehicle_key, miles_input) ==
    IF vehicle_key # NoCar THEN miles_input ELSE FInt(0)

gas_price_of(vehicle_key, price_input) ==
    IF vehicle_key # NoCar THEN price_input ELSE FInt(0)

gallons_per_year(annual_miles, vehicle_mpg) == FDiv(annual_miles, vehicle_mpg)

\* the gas cost with the mpg guard replaced by a divisor of at least 1
annual_gas_cost_divisor_one(vehicle_key, vehicle_mpg, miles_input, price_input) ==
    IF vehicle_key # NoCar
    THEN FMul(gallons_per_year(miles_input,
                               IF FLt(FInt(0), vehicle_mpg) THEN vehicle_mpg
                               ELSE FInt(1)),
              price_input)
    ELSE FInt(0)

annual_gas_cost(vehicle_key, vehicle_mpg, miles_input, price_input) ==
    IF vehicle_key # NoCar
    THEN IF FLt(FInt(0), vehicle_mpg)
         THEN FMul(gallons_per_year(miles_input, vehicle_mpg), price_input)
         ELSE FInt(0)
    ELSE FInt(0)

\* the childcare cost looked up whatever the family status is
GetOrZero(d, k) == IF HasKey(d, k) THEN Get(d, k) ELSE FInt(0)

annual_childcare_cost_any_status(childcare, family_status, selected_childcare) ==
    GetOrZero(childcare["Family with kids"], selected_childcare)

\* childcare is the dict childcare_data of each family status
annual_childcare_cost(childcare, family_status, selected_childcare) ==
    IF family_status = "Family with kids"
    THEN Get(childcare[family_status], selected_childcare)
    ELSE FInt(0)

annual_retirement_cost(annual_salary, retirement_fraction) ==
    FMul(annual_salary, retirement_fraction)

(***************************************************************************)
(* Section 6: taxes, total expenses, discretionary income                  *)
(***************************************************************************)
\* a + b + ... from left to right
RECURSIVE SumLeftToRight(_)
SumLeftToRight(terms) ==
    IF Len(terms) = 1 THEN terms[1]
    ELSE FAdd(SumLeftToRight(SubSeq(terms, 1, Len(terms) - 1)),
              terms[Len(terms)])

total_expenses(c) ==
    SumLeftToRight(<<c.annual_housing_cost,
                     c.annual_home_insurance,
                     c.annual_vehicle_payment,
                     c.annual_gas_cost,
                     c.annual_groceries_cost,
                     c.annual_medical_cost,
                     c.annual_childcare_cost,
                     c.annual_phone_cost,
                     c.annual_utilities_cost,
                     c.annual_loan_cost,
                     c.annual_entertainment_cost,
                     c.annual_retirement_cost>>)

\* the leftover with the taxes not subtracted
discretionary_income_before_tax(annual_salary, tax_amount, expenses) ==
    FSub(annual_salary, expenses)

discretionary_income(annual_salary, tax_amount, expenses) ==
    FSub(FSub(annual_salary, tax_amount), expenses)

(***************************************************************************)
(* Section 8: the waterfall table                                          *)
(***************************************************************************)
\* the table whose last step adds the leftover once more
data_steps_adds_leftover(annual_salary, tax_amount, c) ==
    << [Category |-> "Starting Salary",      Amount |-> annual_salary],
       [Category |-> "Taxes",                Amount |-> FNeg(tax_amount)],
       [Category |-> "Housing",              Amount |-> FNeg(c.annual_housing_cost)],
       [Category |-> "Home Insurance",       Amount |-> FNeg(c.annual_home_insurance)],
       [Category |-> "Vehicle Payment",      Amount |-> FNeg(c.annual_vehicle_payment)],
       [Category |-> "Gas",                  Amount |-> FNeg(c.annual_gas_cost)],
       [Category |-> "Groceries",            Amount |-> FNeg(c.annual_groceries_cost)],
       [Category |-> "Medical Insurance",    Amount |-> FNeg(c.annual_medical_cost)],
       [Category |-> "Childcare",            Amount |-> FNeg(c.annual_childcare_cost)],
       [Category |-> "Phone Plan",           Amount |-> FNeg(c.annual_phone_cost)],
       [Category |-> "Utilities",            Amount |-> FNeg(c.annual_utilities_cost)],
       [Category |-> "College Loan",         Amount |-> FNeg(c.annual_loan_cost)],
       [Category |-> "Entertainment",        Amount |-> FNeg(c.annual_entertainment_cost)],
       [Category |-> "Retirement",           Amount |-> FNeg(c.annual_retirement_cost)],
       [Category |-> "Discretionary Income",
        Amount |-> FSub(FSub(annual_salary, tax_amount),
                        total_expenses(c))] >>

data_steps(annual_salary, tax_amount, c) ==
    << [Category |-> "Starting Salary",      Amount |-> annual_salary],
       [Category |-> "Taxes",                Amount |-> FNeg(tax_amount)],
       [Category |-> "Housing",              Amount |-> FNeg(c.annual_housing_cost)],
       [Category |-> "Home Insurance",       Amount |-> FNeg(c.annual_home_insurance)],
       [Category |-> "Vehicle Payment",      Amount |-> FNeg(c.annual_vehicle_payment)],
       [Category |-> "Gas",                  Amount |-> FNeg(c.annual_gas_cost)],
       [Category |-> "Groceries",            Amount |-> FNeg(c.annual_groceries_cost)],
       [Category |-> "Medical Insurance",    Amount |-> FNeg(c.annual_medical_cost)],
       [Category |-> "Childcare",            Amount |-> FNeg(c.annual_childcare_cost)],
       [Category |-> "Phone Plan",           Amount |-> FNeg(c.annual_phone_cost)],
       [Category |-> "Utilities",            Amount |-> FNeg(c.annual_utilities_cost)],
       [Category |-> "College Loan",         Amount |-> FNeg(c.annual_loan_cost)],
       [Category |-> "Entertainment",        Amount |-> FNeg(c.annual_entertainment_cost)],
       [Category |-> "Retirement",           Amount |-> FNeg(c.annual_retirement_cost)],
       [Category |-> "Discretionary Income", Amount |-> FInt(0)] >>

\* Series.cumsum(): the running total of a column
running_total(before, x) ==
    Append(before,
           IF Len(before) = 0 THEN x ELSE FAdd(before[Len(before)], x))

RECURSIVE cumsum(_)
cumsum(col) ==
    IF Len(col) = 0 THEN <<>>
    ELSE running_total(cumsum(SubSeq(col, 1, Len(col) - 1)), col[Len(col)])

\* the column not shifted at all
shift1_unshifted(col, fill_value) ==
    [i \in 1..Len(col) |-> col[i]]

\* Series.shift(1, fill_value=fill_value)
shift1(col, fill_value) ==
    [i \in 1..Len(col) |-> IF i = 1 THEN fill_value ELSE col[i - 1]]

get_label(row, leftover) ==
    IF row.Category = "Discretionary Income"
    THEN leftover
    ELSE row.Cumulative

pick_color(cat, leftover) ==
    IF cat = "Starting Salary" THEN "green"
    ELSE IF cat = "Discretionary Income"
         THEN IF FLe(FInt(0), leftover) THEN "blue" ELSE "red"
         ELSE "red"

\* the row with the columns Label and Color added
labelled(row, leftover) ==
    [Category |-> row.Category,
     Amount |-> row.Amount,
     Cumulative |-> row.Cumulative,
     Start |-> row.Start,
     End |-> row.End,
     Label |-> get_label(row, leftover),
     Color |-> pick_color(row.Category, leftover)]

\* the rows of steps with the columns Cumulative, Start and End
with_start_end(steps, Cumulative, Start, End, leftover) ==
    [i \in 1..Len(steps) |->
        labelled([Category |-> steps[i].Category,
                  Amount |-> steps[i].Amount,
                  Cumulative |-> Cumulative[i],
                  Start |-> Start[i],
                  End |-> End[i]],
                 leftover)]

with_cumulative(steps, Cumulative, leftover) ==
    with_start_end(steps, Cumulative, shift1(Cumulative, FInt(0)), Cumulative,
                   leftover)

\* df_steps after the columns Cumulative, Start, End, Label and Color are added
df_steps(steps, leftover) ==
    with_cumulative(steps, cumsum([i \in 1..Len(steps) |-> steps[i].Amount]),
                    leftover)

(***************************************************************************)
(* One run of main() on the values the widgets return.  w is the record of *)
(* those values; the result is the record of what the run computed, or the *)
(* KeyError of the first dict lookup whose key is missing.                 *)
(***************************************************************************)
\* the dicts sections 3 and 4 of main() build
dicts ==
    [career_data |-> career_data,
     housing_labeled |-> housing_labeled,
     vehicle_labeled |-> vehicle_labeled,
     groceries_data |-> groceries_data,
     medical_data |-> medical_data,
     childcare_data |-> childcare_data,
     phone_data |-> phone_data,
     utilities_data |-> utilities_data,
     loan_data |-> loan_data,
     entertainment_data |-> entertainment_data,
     retirement_data |-> retirement_data]

\* the dict lookups of section 5 in the dicts d, in the order main()
\* performs them
lookups(w, d) ==
    << <<"selected_career", d.career_data>>,
       <<"selected_housing", d.housing_labeled>>,
       <<"selected_vehicle", d.vehicle_labeled>>,
       <<"selected_groceries", d.groceries_data[w.family_status]>>,
       <<"selected_medical", d.medical_data[w.family_status]>> >>
    \o (IF w.family_status = "Family with kids"
        THEN << <<"selected_childcare", d.childcare_data[w.family_status]>> >>
        ELSE <<>>)
    \o << <<"selected_phone", d.phone_data>>,
          <<"selected_utilities", d.utilities_data>>,
          <<"selected_loan", d.loan_data>>,
          <<"selected_entertainment", d.entertainment_data>>,
          <<"selected_retirement", d.retirement_data>> >>

\* the lookups l of the run that raise KeyError
missing(l, w) == {i \in 1..Len(l) : Lookup(l[i][2], w[l[i][1]]).raised}

\* the costs section 5 looks up and computes
costs_of(w, d, annual_salary, housing_key, vehicle_key) ==
    [annual_housing_cost |-> Get(housing_data_raw, housing_key)[1],
     annual_home_insurance |-> Get(housing_data_raw, housing_key)[2],
     annual_vehicle_payment |-> Get(vehicle_data_raw, vehicle_key)[1],
     annual_gas_cost |->
         annual_gas_cost(vehicle_key, Get(vehicle_data_raw, vehicle_key)[2],
                         w.annual_miles, w.gas_price),
     annual_groceries_cost |->
         Get(d.groceries_data[w.family_status], w.selected_groceries),
     annual_medical_cost |->
         Get(d.medical_data[w.family_status], w.selected_medical),
     annual_childcare_cost |->
         annual_childcare_cost(d.childcare_data, w.family_status,
                               w.selected_childcare),
     annual_phone_cost |-> Get(d.phone_data, w.selected_phone),
     annual_utilities_cost |-> Get(d.utilities_data, w.selected_utilities),
     annual_loan_cost |-> Get(d.loan_data, w.selected_loan),
     annual_entertainment_cost |->
         Get(d.entertainment_data, w.selected_entertainment),
     annual_retirement_cost |->
         annual_retirement_cost(annual_salary,
                                Get(d.retirement_data, w.selected_retirement))]

costs(w, d, annual_salary) ==
    costs_of(w, d, annual_salary,
             Get(d.housing_labeled, w.selected_housing),
             Get(d.vehicle_labeled, w.selected_vehicle))

\* the run from section 8 on: the table and what the page shows
section8(w, annual_salary, vehicle_key, c, tax_amount, expenses, leftover) ==
    [outcome |-> "ok",
     family_status |-> w.family_status,
     annual_salary |-> annual_salary,
     vehicle_key |-> vehicle_key,
     vehicle_mpg |-> Get(vehicle_data_raw, vehicle_key)[2],
     annual_miles |-> annual_miles_of(vehicle_key, w.annual_miles),
     gas_price |-> gas_price_of(vehicle_key, w.gas_price),
     costs |-> c,
     tax_amount |-> tax_amount,
     total_expenses |-> expenses,
     discretionary_income |-> leftover,
     df_steps |-> df_steps(data_steps(annual_salary, tax_amount, c), leftover)]

\* the run from the discretionary income on
section6_leftover(w, annual_salary, vehicle_key, c, tax_amount, expenses) ==
    section8(w, annual_salary, vehicle_key, c, tax_amount, expenses,
             discretionary_income(annual_salary, tax_amount, expenses))

\* the run from section 6 on
section6(w, annual_salary, vehicle_key, c) ==
    section6_leftover(w, annual_salary, vehicle_key, c,
                      compute_taxes(annual_salary), total_expenses(c))

\* the run from the lookup of the career on
section5(w, d, annual_salary) ==
    section6(w, annual_salary, Get(d.vehicle_labeled, w.selected_vehicle),
             costs(w, d, annual_salary))

\* the run given the lookups l and the set m of those that raise
run_or_raise(w, d, l, m) ==
    IF m # {}
    THEN [outcome |-> "KeyError",
          raised_at |-> l[CHOOSE i \in m : \A j \in m : i <= j][1]]
    ELSE section5(w, d, Get(d.career_data, w.selected_career))

section5_lookups(w, d, l) == run_or_raise(w, d, l, missing(l, w))

main_with(w, d) == section5_lookups(w, d, lookups(w, d))

main(w) == main_with(w, dicts)
(***************************************************************************)
(* State.  Streamlit runs main() from top to bottom once when the page is  *)
(* opened and once more after every change of a widget.                    *)
(*   widgets       the value each widget returns in the next run           *)
(*   run           what the last run of main() computed                    *)
(*   interactions  the number of widget changes so far                     *)
(*   taxcall       one call of compute_taxes on a pair of incomes          *)
(*   fuelcall      one evaluation of the gas cost block                    *)
(***************************************************************************)
VARIABLES widgets, run, interactions, taxcall, fuelcall

vars == <<widgets, run, interactions, taxcall, fuelcall>>

MaxInteractions == 3

\* number_input(..., value=10000) and number_input(..., value=3.50)
default_annual_miles == FInt(10000)
default_gas_price == FDec(350, 100)

\* the values typed into the two number inputs (min_value=0); 226800 miles
\* in the 28 mpg car at the default price cost 28350, which brings the
\* expenses of the 45000 salary to 50000
AnnualMilesInputs == {FInt(0), default_annual_miles, FInt(226800)}
GasPriceInputs == {FDec(0, 100), default_gas_price, FDec(400, 100)}

Range(f) == {f[i] : i \in DOMAIN f}

\* a select box shows list(d.keys()) and starts on the first entry
first_option(d) == keys(d)[1]

default_widgets ==
    [family_status |-> family_status_options[1],
     selected_career |-> first_option(career_data),
     selected_housing |-> first_option(housing_labeled),
     selected_vehicle |-> first_option(vehicle_labeled),
     annual_miles |-> default_annual_miles,
     gas_price |-> default_gas_price,
     selected_groceries |-> first_option(groceries_data[family_status_options[1]]),
     selected_medical |-> first_option(medical_data[family_status_options[1]]),
     selected_childcare |-> first_option(childcare_data[family_status_options[1]]),
     selected_phone |-> first_option(phone_data),
     selected_utilities |-> first_option(utilities_data),
     selected_loan |-> first_option(loan_data),
     selected_entertainment |-> first_option(entertainment_data),
     selected_retirement |-> first_option(retirement_data)]

NoTaxCall ==
    [pc |-> "none", a |-> FInt(0), b |-> FInt(0),
     tax_a |-> FInt(0), tax_b |-> FInt(0)]

NoFuelCall ==
    [pc |-> "none", vehicle_key |-> NoCar, vehicle_mpg |-> FInt(0),
     annual_miles |-> FInt(0), gas_price |-> FInt(0),
     annual_gas_cost |-> FInt(0)]

InitSession ==
    /\ widgets = default_widgets
    /\ run = main(default_widgets)
    /\ interactions = 0

Init ==
    /\ InitSession
    /\ taxcall = NoTaxCall
    /\ fuelcall = NoFuelCall

\* The script is run again, from the top, with the changed widget values.
Rerun(w) ==
    /\ interactions < MaxInteractions
    /\ w # widgets
    /\ widgets' = w
    /\ run' = main(w)
    /\ interactions' = interactions + 1
    /\ UNCHANGED <<taxcall, fuelcall>>

\* The groceries and medical boxes are built from the dicts of the family
\* status, so a change of the status shows them anew on their first entry;
\* the childcare box is not shown for "Single" and main() does not read it.
SelectFamilyStatus ==
    \E v \in Range(family_status_options) \ {widgets.family_status} :
        Rerun([widgets EXCEPT
                 !.family_status = v,
                 !.selected_groceries = first_option(groceries_data[v]),
                 !.selected_medical = first_option(medical_data[v]),
                 !.selected_childcare =
                     IF v = "Family with kids"
                     THEN first_option(childcare_data[v])
                     ELSE @])

SelectCareer ==
    \E k \in Range(keys(career_data)) :
        Rerun([widgets EXCEPT !.selected_career = k])

SelectHousing ==
    \E k \in Range(keys(housing_labeled)) :
        Rerun([widgets EXCEPT !.selected_housing = k])

\* the two number inputs are shown only with a car, and start on their
\* default values when they are shown again
SelectVehicle ==
    \E k \in Range(keys(vehicle_labeled)) :
        Rerun(IF Get(vehicle_labeled, k) = NoCar
              THEN [widgets EXCEPT !.selected_vehicle = k,
                                   !.annual_miles = default_annual_miles,
                                   !.gas_price = default_gas_price]
              ELSE [widgets EXCEPT !.selected_vehicle = k])

HasCar(w) ==
    /\ HasKey(vehicle_labeled, w.selected_vehicle)
    /\ Get(vehicle_labeled, w.selected_vehicle) # NoCar

EnterAnnualMiles ==
    /\ HasCar(widgets)
    /\ \E m \in AnnualMilesInputs :
           Rerun([widgets EXCEPT !.annual_miles = m])

EnterGasPrice ==
    /\ HasCar(widgets)
    /\ \E p \in GasPriceInputs :
           Rerun([widgets EXCEPT !.gas_price = p])

SelectGroceries ==
    \E k \in Range(keys(groceries_data[widgets.family_status])) :
        Rerun([widgets EXCEPT !.selected_groceries = k])

SelectMedical ==
    \E k \in Range(keys(medical_data[widgets.family_status])) :
        Rerun([widgets EXCEPT !.selected_medical = k])

SelectChildcare ==
    /\ widgets.family_status = "Family with kids"
    /\ \E k \in Range(keys(childcare_data[widgets.family_status])) :
           Rerun([widgets EXCEPT !.selected_childcare = k])

SelectPhone ==
    \E k \in Range(keys(phone_data)) :
        Rerun([widgets EXCEPT !.selected_phone = k])

SelectUtilities ==
    \E k \in Range(keys(utilities_data)) :
        Rerun([widgets EXCEPT !.selected_utilities = k])

SelectLoan ==
    \E k \in Range(keys(loan_data)) :
        Rerun([widgets EXCEPT !.selected_loan = k])

SelectEntertainment ==
    \E k \in Range(keys(entertainment_data)) :
        Rerun([widgets EXCEPT !.selected_entertainment = k])

SelectRetirement ==
    \E k \in Range(keys(retirement_data)) :
        Rerun([widgets EXCEPT !.selected_retirement = k])

Next ==
    \/ SelectFamilyStatus
    \/ SelectCareer
    \/ SelectHousing
    \/ SelectVehicle
    \/ EnterAnnualMiles
    \/ EnterGasPrice
    \/ SelectGroceries
    \/ SelectMedical
    \/ SelectChildcare
    \/ SelectPhone
    \/ SelectUtilities
    \/ SelectLoan
    \/ SelectEntertainment
    \/ SelectRetirement

Spec == Init /\ [][Next]_vars

(***************************************************************************)
(* A select box whose returned key is not a key of its dict (the caller    *)
(* of main() hands it a selection that the catalog does not hold).         *)
(***************************************************************************)
UnknownLabel == <<"Unknown Option", 0, 0>>

selectboxes ==
    {"selected_career", "selected_housing", "selected_vehicle",
     "selected_groceries", "selected_medical", "selected_childcare",
     "selected_phone", "selected_utilities", "selected_loan",
     "selected_entertainment", "selected_retirement"}

UnknownSelection ==
    \E box \in selectboxes :
        Rerun([widgets EXCEPT
                 ![box] = IF box = "selected_retirement"
                          THEN "Unknown Option" ELSE UnknownLabel])

NextUnknown == Next \/ UnknownSelection

SpecUnknown == Init /\ [][NextUnknown]_vars

(***************************************************************************)
(* compute_taxes called on two incomes a <= b.  The incomes are every      *)
(* whole dollar and every cent within TaxWindow of a bracket boundary,     *)
(* every multiple of TaxGridStep dollars up to TaxGridMax steps and one    *)
(* step below zero, and two floats with no float between them: 305768 / 3  *)
(* and the next float above it.                                            *)
(***************************************************************************)
TaxWindow == 2
TaxGridStep == 5000
TaxGridMax == 32

TaxBoundaries == {0, 20000, 60000, 120000}

\* the next float above the float x > 0 (math.nextafter(x, math.inf))
Ulp(p) == Number(1, <<1>>, p[3] + BitLen(p[2]) - MantBits)

NextUp(x) == ExactAdd(x, Ulp(Parts(x)))

ThirdIncome == FDiv(FInt(305768), FInt(3))

TaxIncomes ==
    {FInt(b + d) : b \in TaxBoundaries, d \in (-TaxWindow)..TaxWindow}
    \cup {FDec(100 * b + d, 100) :
             b \in TaxBoundaries, d \in (-TaxWindow)..TaxWindow}
    \cup {FInt(TaxGridStep * k) : k \in (-1)..TaxGridMax}
    \cup {ThirdIncome, NextUp(ThirdIncome)}

TaxInit ==
    /\ InitSession
    /\ fuelcall = NoFuelCall
    /\ \E a \in TaxIncomes, b \in TaxIncomes :
           /\ FLe(a, b)
           /\ taxcall = [pc |-> "call", a |-> a, b |-> b,
                         tax_a |-> FInt(0), tax_b |-> FInt(0)]

CallComputeTaxes ==
    /\ taxcall.pc = "call"
    /\ taxcall' = [taxcall EXCEPT !.pc = "done",
                                  !.tax_a = compute_taxes(taxcall.a),
                                  !.tax_b = compute_taxes(taxcall.b)]
    /\ UNCHANGED <<widgets, run, interactions, fuelcall>>

TaxNext == CallComputeTaxes

TaxSpec == TaxInit /\ [][TaxNext]_vars

(***************************************************************************)
(* The gas cost block of main() evaluated on a vehicle entry, a distance   *)
(* and a price.  Besides the entries of vehicle_data_raw the block is      *)
(* given a 25 mpg car and a car whose mpg is 0, which the catalog does not *)
(* hold.                                                                   *)
(***************************************************************************)
FuelMaxThousandMiles == 12

FuelVehicles ==
    {<<vehicle_data_raw[i][1], vehicle_data_raw[i][2][2]>> :
        i \in 1..Len(vehicle_data_raw)}
    \cup {<<"25 MPG Car", FInt(25)>>, <<"Car Without MPG", FInt(0)>>}

FuelMiles == {FInt(1000 * k) : k \in 0..FuelMaxThousandMiles} \cup {FInt(1)}

FuelPrices ==
    {FDec(0, 100), FDec(1, 100), FDec(325, 100), FDec(350, 100),
     FDec(399, 100), FDec(400, 100)}

FuelInit ==
    /\ InitSession
    /\ taxcall = NoTaxCall
    /\ \E v \in FuelVehicles, m \in FuelMiles, p \in FuelPrices :
           fuelcall = [pc |-> "call", vehicle_key |-> v[1], vehicle_mpg |-> v[2],
                       annual_miles |-> m, gas_price |-> p,
                       annual_gas_cost |-> FInt(0)]

EvalGasCost ==
    /\ fuelcall.pc = "call"
    /\ fuelcall' =
           [pc |-> "done",
            vehicle_key |-> fuelcall.vehicle_key,
            vehicle_mpg |-> fuelcall.vehicle_mpg,
            annual_miles |-> annual_miles_of(fuelcall.vehicle_key,
                                             fuelcall.annual_miles),
            gas_price |-> gas_price_of(fuelcall.vehicle_key, fuelcall.gas_price),
            annual_gas_cost |->
                annual_gas_cost(fuelcall.vehicle_key, fuelcall.vehicle_mpg,
                                fuelcall.annual_miles, fuelcall.gas_price)]
    /\ UNCHANGED <<widgets, run, interactions, taxcall>>

FuelNext == EvalGasCost

FuelSpec == FuelInit /\ [][FuelNext]_vars


(***************************************************************************)
(* Properties of compute_taxes (TaxSpec)                                   *)
(***************************************************************************)
FMin(x, y) == IF FLe(x, y) THEN x ELSE y
FMax(x, y) == IF FLe(y, x) THEN x ELSE y
FAbs(x) == IF FLt(x, FInt(0)) THEN FNeg(x) ELSE x

\* x and y differ by no more than 2^-50 of y: they are equal but for the
\* rounding of a few float operations
NearlyEqual(x, y) ==
    FLe(ExactMul(FAbs(ExactSub(x, y)), Number(1, <<1>>, 50)), FAbs(y))

\* the part of income that lies in (lo, hi], and the part above lo
PartIn(income, lo, hi) == FMax(FInt(0), FSub(FMin(income, FInt(hi)), FInt(lo)))
PartAbove(income, lo) == FMax(FInt(0), FSub(income, FInt(lo)))

\* the four parts of the income, each at its rate, as float arithmetic
\* computes the sum
MarginalReference(income) ==
    IF FLe(income, FInt(0)) THEN FInt(0)
    ELSE FAdd(FAdd(FAdd(FMul(PartIn(income, 0, 20000), FDec(10, 100)),
                        FMul(PartIn(income, 20000, 60000), FDec(15, 100))),
                   FMul(PartIn(income, 60000, 120000), FDec(20, 100))),
              FMul(PartAbove(income, 120000), FDec(25, 100)))

\* 20 times the sum of the four parts at their rates (2, 3, 4 and 5
\* twentieths), without any rounding
TwentyTimesReference(income) ==
    IF FLe(income, FInt(0)) THEN FInt(0)
    ELSE ExactAdd(
             ExactAdd(ExactMul(FInt(2), PartIn(income, 0, 20000)),
                      ExactMul(FInt(3), PartIn(income, 20000, 60000))),
             ExactAdd(ExactMul(FInt(4), PartIn(income, 60000, 120000)),
                      ExactMul(FInt(5), PartAbove(income, 120000))))

SpecCases ==
    << <<10000, 1000>>, <<20000, 2000>>, <<60000, 8000>>,
       <<120000, 20000>>, <<150000, 27500>> >>

TaxIsReference(income, tax) ==
    /\ tax = MarginalReference(income)
    /\ NearlyEqual(ExactMul(FInt(20), tax), TwentyTimesReference(income))
    /\ FLe(income, FInt(0)) => tax = FInt(0)
    /\ \A i \in 1..Len(SpecCases) :
           income = FInt(SpecCases[i][1]) => tax = FInt(SpecCases[i][2])

\* C1: compute_taxes(income) is 0 for income <= 0 and otherwise 10% of the
\* part of the income in (0, 20000] plus 15% of the part in (20000, 60000]
\* plus 20% of the part in (60000, 120000] plus 25% of the part above
\* 120000: it is that sum as float arithmetic computes it, and is the exact
\* value of that sum but for the rounding; incomes 10000, 20000, 60000,
\* 120000 and 150000 give exactly 1000, 2000, 8000, 20000 and 27500.
C1_TaxIsMarginalReference ==
    taxcall.pc = "done" =>
        /\ TaxIsReference(taxcall.a, taxcall.tax_a)
        /\ TaxIsReference(taxcall.b, taxcall.tax_b)

\* compute_taxes has returned 1000 for 10000 and 27500 for 150000
C1_Witness ==
    /\ taxcall.pc = "done"
    /\ taxcall.a = FInt(10000) /\ taxcall.tax_a = FInt(1000)
    /\ taxcall.b = FInt(150000) /\ taxcall.tax_b = FInt(27500)

\* the rise of the tax from income a to income b, and a quarter of the rise
\* of the income, both without rounding
TaxRise == ExactSub(taxcall.tax_b, taxcall.tax_a)
QuarterOfIncomeRise ==
    ExactMul(FDec(25, 100), ExactSub(taxcall.b, taxcall.a))

\* C2 as stated: for incomes a <= b, compute_taxes(a) <= compute_taxes(b)
\* and compute_taxes(b) - compute_taxes(a) <= 0.25 * (b - a), so the tax has
\* no jump at 0, 20000, 60000 or 120000; for 120000 <= a <= b the difference
\* is exactly 0.25 * (b - a).  Each tax is a float, rounded after every
\* step, so between two incomes with no float between them the tax can rise
\* by two of its own steps, which is more than a quarter of the step of the
\* income.
C2_AsStated ==
    taxcall.pc = "done" =>
        /\ FLe(taxcall.tax_a, taxcall.tax_b)
        /\ FLe(TaxRise, QuarterOfIncomeRise)
        /\ FLe(FInt(120000), taxcall.a) => TaxRise = QuarterOfIncomeRise

\* compute_taxes has been called on 305768 / 3 and on the next float, and
\* the tax rose by more than a quarter of the rise of the income
C2_Witness ==
    /\ taxcall.pc = "done"
    /\ taxcall.a = ThirdIncome
    /\ taxcall.b = NextUp(ThirdIncome)
    /\ FLt(QuarterOfIncomeRise, TaxRise)

(***************************************************************************)
(* Properties of a run of main() (Spec)                                    *)
(***************************************************************************)
\* the Amounts of the rows first..last added from left to right
RECURSIVE SumAmount(_, _, _)
SumAmount(rows, first, last) ==
    IF first > last THEN FInt(0)
    ELSE FAdd(SumAmount(rows, first, last - 1), rows[last].Amount)

\* the position of the last row of the table
Terminal == Len(run.df_steps)

\* C3 as stated: the Amounts of the non-terminal steps (Starting Salary,
\* Taxes and the twelve expense steps) sum to discretionary_income =
\* annual_salary - tax_amount - total_expenses; the twelve expense steps
\* subtract total_expenses; the terminal 'Discretionary Income' step has
\* Amount 0.  The table subtracts the expenses from the salary one by one
\* and discretionary_income subtracts their total, so with a gas cost that
\* is not a whole number the two float results can differ in the last bit.
C3_AsStated ==
    /\ Terminal = 2 + 12 + 1
    /\ run.df_steps[Terminal].Category = "Discretionary Income"
    /\ run.df_steps[Terminal].Amount = FInt(0)
    /\ run.df_steps[1].Amount = run.annual_salary
    /\ run.df_steps[2].Amount = FNeg(run.tax_amount)
    /\ SumAmount(run.df_steps, 3, Terminal - 1) = FNeg(run.total_expenses)
    /\ SumAmount(run.df_steps, 1, Terminal - 1) = run.discretionary_income
    /\ run.discretionary_income =
           FSub(FSub(run.annual_salary, run.tax_amount), run.total_expenses)

\* the run for the 30 mpg car, 10000 miles and 4.00 a gallon: the Amounts of
\* the non-terminal steps, added from left to right, do not give
\* discretionary_income, and the last row ends beside its own label
C3_Witness ==
    /\ run.vehicle_mpg = FInt(30)
    /\ widgets.annual_miles = FInt(10000)
    /\ widgets.gas_price = FDec(400, 100)
    /\ run.annual_salary = FInt(90000)
    /\ SumAmount(run.df_steps, 1, Terminal - 1) # run.discretionary_income
    /\ run.df_steps[Terminal].End # run.df_steps[Terminal].Label

\* C4: the Amounts of all steps sum to the End of the last step, which is
\* the End of the second-to-last step, and the Label of the last step is
\* discretionary_income, also when that is negative.
C4_TerminalStepAddsNothing ==
    /\ SumAmount(run.df_steps, 1, Terminal) = run.df_steps[Terminal].End
    /\ run.df_steps[Terminal].End = run.df_steps[Terminal - 1].End
    /\ run.df_steps[Terminal - 1].Category = "Retirement"
    /\ run.df_steps[Terminal].Label = run.discretionary_income

\* a run that ends with a negative discretionary income on the last label
C4_Witness ==
    /\ FLt(run.discretionary_income, FInt(0))
    /\ run.df_steps[Terminal].Label = run.discretionary_income
    /\ run.df_steps[Terminal].End = run.df_steps[Terminal - 1].End

\* C5 as stated: salary 90000 gives tax 17500, and with total_expenses 40000
\* the discretionary income is 32500, the terminal step has Amount 0, End
\* equal to the prior cumulative balance, Label 32500 and the colour of a
\* non-negative leftover.
C5_AsStated ==
    /\ run.annual_salary = FInt(90000) => run.tax_amount = FInt(17500)
    /\ (run.annual_salary = FInt(90000) /\ run.total_expenses = FInt(40000)) =>
           /\ run.discretionary_income = FInt(32500)
           /\ run.df_steps[Terminal].Amount = FInt(0)
           /\ run.df_steps[Terminal].End = run.df_steps[Terminal - 1].Cumulative
           /\ run.df_steps[Terminal].Label = FInt(32500)
           /\ run.df_steps[Terminal].Color = "blue"

\* C5 amended: salary 90000 gives tax 14000 (2000 + 6000 + 6000), and with
\* total_expenses 40000 the discretionary income is 36000, the terminal step
\* has Amount 0, End equal to the prior cumulative balance, Label 36000 and
\* the colour of a non-negative leftover.
C5_Scenario90000 ==
    /\ run.annual_salary = FInt(90000) => run.tax_amount = FInt(14000)
    /\ (run.annual_salary = FInt(90000) /\ run.total_expenses = FInt(40000)) =>
           /\ run.discretionary_income = FInt(36000)
           /\ run.df_steps[Terminal].Amount = FInt(0)
           /\ run.df_steps[Terminal].End = run.df_steps[Terminal - 1].Cumulative
           /\ run.df_steps[Terminal].Label = FInt(36000)
           /\ run.df_steps[Terminal].Color = "blue"

\* a run with salary 90000 whose expenses add up to 40000
C5_Witness ==
    /\ run.annual_salary = FInt(90000)
    /\ run.total_expenses = FInt(40000)
    /\ run.df_steps[Terminal].Label = FInt(36000)

\* C7: with family status 'Single' the childcare cost in total_expenses and
\* in the 'Childcare' step is 0 whatever the childcare selection is; a
\* nonzero childcare cost occurs only with 'Family with kids'.
C7_SingleHasNoChildcareCost ==
    /\ run.df_steps[9].Category = "Childcare"
    /\ run.df_steps[9].Amount = FNeg(run.costs.annual_childcare_cost)
    /\ run.family_status = "Single" =>
           /\ run.costs.annual_childcare_cost = FInt(0)
           /\ run.total_expenses =
                  SumLeftToRight(<<run.costs.annual_housing_cost,
                                   run.costs.annual_home_insurance,
                                   run.costs.annual_vehicle_payment,
                                   run.costs.annual_gas_cost,
                                   run.costs.annual_groceries_cost,
                                   run.costs.annual_medical_cost,
                                   run.costs.annual_phone_cost,
                                   run.costs.annual_utilities_cost,
                                   run.costs.annual_loan_cost,
                                   run.costs.annual_entertainment_cost,
                                   run.costs.annual_retirement_cost>>)
    /\ run.costs.annual_childcare_cost # FInt(0) =>
           run.family_status = "Family with kids"

\* a run for 'Single' while the childcare selection is the 6000 daycare
C7_Witness ==
    /\ run.family_status = "Single"
    /\ widgets.selected_childcare = LabelKey("Premium Daycare", FInt(6000))
    /\ run.df_steps[9].Amount = FInt(0)

Colors(rows, S) == {rows[i].Color : i \in S}

\* the colour classes of a run: of the first step, of the steps between the
\* first and the last, of the last step, and the class pick_color gives the
\* last step of a leftover of the other sign
StartingClass == run.df_steps[1].Color
ExpenseClasses == Colors(run.df_steps, 2..(Terminal - 1))
TerminalClass == run.df_steps[Terminal].Color
OtherTerminalClass ==
    pick_color("Discretionary Income",
               IF FLe(FInt(0), run.discretionary_income) THEN FInt(-1)
               ELSE FInt(0))

\* C8 as stated: there are four colour classes.  The first step has the
\* starting class; the steps between the first and the last all have one
\* class, the negative class, whatever their amounts; the last step has the
\* terminal-positive class if the discretionary income is >= 0 and the
\* terminal-negative class otherwise, and each of the two differs from the
\* other, from the starting class and from the class of the expense steps;
\* salary 45000 with expenses 50000 gives tax 5750, label -10750 and the
\* terminal-negative class, the last End being the End before it.
C8_AsStated ==
    /\ Cardinality(ExpenseClasses) = 1
    /\ StartingClass \notin ExpenseClasses
    /\ TerminalClass # OtherTerminalClass
    /\ TerminalClass \notin ExpenseClasses \cup {StartingClass}
    /\ (run.annual_salary = FInt(45000) /\ run.total_expenses = FInt(50000)) =>
           /\ run.tax_amount = FInt(5750)
           /\ run.df_steps[Terminal].Label = FInt(-10750)
           /\ FLt(run.df_steps[Terminal].Label, FInt(0))
           /\ TerminalClass \notin ExpenseClasses
           /\ run.df_steps[Terminal].End = run.df_steps[Terminal - 1].End

\* the run of the example: salary 45000, tax 5750, expenses 50000 and label
\* -10750, whose last step has the colour of the expense steps
C8_Witness ==
    /\ run.annual_salary = FInt(45000)
    /\ run.tax_amount = FInt(5750)
    /\ run.total_expenses = FInt(50000)
    /\ run.discretionary_income = FInt(-10750)
    /\ run.df_steps[Terminal].Label = FInt(-10750)
    /\ TerminalClass \in ExpenseClasses
    /\ TerminalClass # OtherTerminalClass

\* C10: the first Start is 0, every later Start is the previous End, every
\* End is Start plus Amount, every Label but the last is the End, and since
\* every Amount after the first is <= 0 the End never rises after the
\* first step.
C10_UnbrokenChain ==
    /\ run.df_steps[1].Start = FInt(0)
    /\ \A i \in 2..Terminal :
           /\ run.df_steps[i].Start = run.df_steps[i - 1].End
           /\ FLe(run.df_steps[i].Amount, FInt(0))
           /\ FLe(run.df_steps[i].End, run.df_steps[i - 1].End)
    /\ \A i \in 1..Terminal :
           run.df_steps[i].End =
               FAdd(run.df_steps[i].Start, run.df_steps[i].Amount)
    /\ \A i \in 1..(Terminal - 1) :
           run.df_steps[i].Label = run.df_steps[i].End

\* a run whose gas and childcare steps both lower the balance, the gas step
\* by an amount that is not a whole number of dollars
C10_Witness ==
    /\ run.df_steps[6].Category = "Gas"
    /\ FLt(run.df_steps[6].End, run.df_steps[6].Start)
    /\ Len(run.df_steps[6].Amount) = 3
    /\ FLt(run.df_steps[9].End, run.df_steps[9].Start)
    /\ run.df_steps[Terminal].Start = run.df_steps[Terminal - 1].End

(***************************************************************************)
(* Properties of the gas cost block (FuelSpec)                             *)
(***************************************************************************)
\* C6: with a fuel efficiency > 0 the gas cost is (annual_miles /
\* vehicle_mpg) * gas_price as float arithmetic computes it, the quotient
\* first, which is the exact value of that but for the rounding
\* (25 mpg, 10000 miles and 4.00 a gallon give exactly 1600); with a fuel
\* efficiency of 0 it is 0 for every distance and price, and nothing is
\* divided by 0.
C6_GasCost ==
    fuelcall.pc = "done" =>
        /\ FLt(FInt(0), fuelcall.vehicle_mpg) =>
               fuelcall.annual_gas_cost =
                   FMul(FDiv(fuelcall.annual_miles, fuelcall.vehicle_mpg),
                        fuelcall.gas_price)
        /\ FLt(FInt(0), fuelcall.vehicle_mpg) =>
               NearlyEqual(ExactMul(fuelcall.annual_gas_cost,
                                    fuelcall.vehicle_mpg),
                           ExactMul(fuelcall.annual_miles, fuelcall.gas_price))
        /\ fuelcall.vehicle_mpg = FInt(0) => fuelcall.annual_gas_cost = FInt(0)
        /\ (/\ fuelcall.vehicle_mpg = FInt(25)
            /\ fuelcall.annual_miles = FInt(10000)
            /\ fuelcall.gas_price = FDec(400, 100)) =>
               fuelcall.annual_gas_cost = FInt(1600)

\* the block has computed 1600 for 25 mpg, 10000 miles and 4.00 a gallon
C6_Witness ==
    /\ fuelcall.pc = "done"
    /\ fuelcall.vehicle_mpg = FInt(25)
    /\ fuelcall.annual_miles = FInt(10000)
    /\ fuelcall.gas_price = FDec(400, 100)
    /\ fuelcall.annual_gas_cost = FInt(1600)

(***************************************************************************)
(* Properties of a run on a selection the catalog may not hold             *)
(* (SpecUnknown)                                                           *)
(***************************************************************************)
\* the select boxes main() reads in this run
BoxesRead ==
    IF widgets.family_status = "Family with kids"
    THEN selectboxes
    ELSE selectboxes \ {"selected_childcare"}

IsUnknown(box) ==
    IF box = "selected_retirement"
    THEN widgets[box] = "Unknown Option"
    ELSE widgets[box] = UnknownLabel

ResultFields ==
    {"annual_salary", "tax_amount", "costs", "total_expenses",
     "discretionary_income", "df_steps"}

\* C9: a run in which a selected key is absent from its catalog ends with
\* the error of that lookup (KeyError, the program's UnknownOptionError) and
\* holds no part of the result; there is no default option.  Every other run
\* resolves every selection and holds the complete result: salary, tax,
\* breakdown, discretionary income and the whole waterfall.
C9_UnknownKeyAbortsRun ==
    IF \E box \in BoxesRead : IsUnknown(box)
    THEN /\ run.outcome = "KeyError"
         /\ run.raised_at \in BoxesRead
         /\ IsUnknown(run.raised_at)
         /\ DOMAIN run \cap ResultFields = {}
    ELSE /\ run.outcome = "ok"
         /\ ResultFields \subseteq DOMAIN run
         /\ Len(run.df_steps) = 2 + 12 + 1
         /\ run.annual_salary \in Range([i \in 1..Len(career_data_raw) |->
                                            career_data_raw[i][2]])
         /\ run.df_steps[Len(run.df_steps)].Label = run.discretionary_income

\* a run that stopped at the loan lookup after the earlier lookups resolved
C9_Witness ==
    /\ run.outcome = "KeyError"
    /\ run.raised_at = "selected_loan"
    /\ widgets.selected_loan = UnknownLabel
    /\ widgets.selected_career # first_option(career_data)

====
